---- MODULE Spec2Model ----
(***************************************************************************)
(* SST LuminOx O2 sensor driver (luminox.c / luminox.h).                   *)
(*                                                                         *)
(* The handler struct is the state; every library function is an action.   *)
(* Bytes are their ASCII codes.  A float is the decimal it was parsed      *)
(* from, <<m, e>> standing for m * 10^-e with trailing zeros removed.      *)
(***************************************************************************)
EXTENDS Integers, Sequences, FiniteSets, TLC

(* ---------------------------------------------------------------- bytes *)

UART_RX_BUF_SIZE == 128

MODE_OUTPUT == 77
PPO2 == 79
O2 == 37
TEMPERATURE == 84
BAROMETRIC_PRESSURE == 80
ALL == 65
SENSOR_STATUS == 101
SENSOR_INFORMATION == 35
SEPARATOR == 32
TERMINATOR == 10
ERROR_RESPONSE == 69

CR == 13
NUL == 0
CH_0 == 48
CH_1 == 49
CH_2 == 50
CH_3 == 51
CH_DOT == 46
CH_PLUS == 43
CH_MINUS == 45

Digit(n) == CH_0 + n

IsDigit(c) == c >= CH_0 /\ c <= CH_0 + 9

\* isspace() of the C locale: space, \t \n \v \f \r
IsSpace(c) == c = SEPARATOR \/ (c >= 9 /\ c <= 13)

(* ---------------------------------------------------------------- enums *)

LUMINOX_MODE_STREAMING == 0
LUMINOX_MODE_POLLING == 1
LUMINOX_MODE_OFF == 2
LUMINOX_MODE_DEFAULT == LUMINOX_MODE_OFF

LUMINOX_INFO_DATE_OF_MFG == 0
LUMINOX_INFO_SERIAL_NUM == 1
LUMINOX_INFO_SW_VER == 2

LUMINOX_ERR_RX_OVERFLOW == 0
LUMINOX_ERR_INVALID_CMD == 1
LUMINOX_ERR_INVALID_FRAME == 2
LUMINOX_ERR_INVALID_ARG == 3
LUMINOX_ERR_INVALID_MODE == 4
LUMINOX_ERR_INVALID_INFO == 5
LUMINOX_ERR_TIMEOUT == 6
LUMINOX_ERROR == 7
LUMINOX_SUCCESS == 8

(* --------------------------------------------------------------- bounds *)

\* bytes of memory behind luminox_data[] that one decode call may read
\* before the call is given up as lost (a fault, or a scan that runs on)
OobLen == 2

\* bytes of stack behind a local field array that atof() may read
StackLen == 1

\* responses the receive handler stores in one run
MaxRx == 1

\* commands transmitted, and unsolicited frames streamed, in one run over
\* the serial link
MaxCmds == 2
MaxStream == 1

\* RESPONSE_TIMEOUT is 0x989680 in luminox.h; the loop of
\* luminox_wait_for_response is run with this smaller limit (the timer is a
\* uint32_t, which both values fit)
RESPONSE_TIMEOUT == 3

(* --------------------------------------------------------------- floats *)

RECURSIVE Normalise(_, _)
Normalise(m, e) ==
    IF m = 0 THEN <<0, 0>>
    ELSE IF e > 0 /\ m % 10 = 0 THEN Normalise(m \div 10, e - 1)
    ELSE <<m, e>>

Zero == <<0, 0>>

\* atof(): optional white space, optional sign, digits, optional point and
\* digits; conversion ends at the first byte that fits none of these (the
\* end of s stands for such a byte).  No digits: 0.
RECURSIVE SkipSpace(_, _)
SkipSpace(s, k) ==
    IF k <= Len(s) /\ IsSpace(s[k]) THEN SkipSpace(s, k + 1) ELSE k

RECURSIVE Digits(_, _, _, _)
\* reads digits from s[k]; returns <<mantissa, digits read, next index>>
Digits(s, k, m, n) ==
    IF k <= Len(s) /\ IsDigit(s[k])
    THEN Digits(s, k + 1, m * 10 + (s[k] - CH_0), n + 1)
    ELSE <<m, n, k>>

atof(s) ==
    LET k0   == SkipSpace(s, 1)
        neg  == k0 <= Len(s) /\ s[k0] = CH_MINUS
        k1   == IF k0 <= Len(s) /\ (s[k0] = CH_MINUS \/ s[k0] = CH_PLUS)
                THEN k0 + 1 ELSE k0
        int  == Digits(s, k1, 0, 0)
        dot  == int[3] <= Len(s) /\ s[int[3]] = CH_DOT
        frac == IF dot THEN Digits(s, int[3] + 1, int[1], 0)
                ELSE <<int[1], 0, int[3]>>
        m    == frac[1]
    IN  IF int[2] + frac[2] = 0 THEN Zero
        ELSE Normalise(IF neg THEN 0 - m ELSE m, frac[2])

(* -------------------------------------------------------------- handler *)

VARIABLES
    current_mode,                 \* luminox_handler_t.current_mode
    current_ppO2,                 \* luminox_handler_t.current_ppO2
    current_O2,                   \* luminox_handler_t.current_O2
    current_temp,                 \* luminox_handler_t.current_temp
    current_barometric_pressure,  \* luminox_handler_t.current_barometric_pressure
    luminox_data,                 \* luminox_handler_t.luminox_data[128], index k at [k + 1]
    err_code,                     \* luminox_handler_t.err_code
    pc,                           \* main thread: "idle", inside luminox_tx ("tx", "tx_clear",
                                  \* "tx_wait"), "decode" (luminox_tx has returned), "lost"
    op,                           \* the library function called last
    step,                         \* luminox_init: which of its five requests runs (else 0)
    rx_count,                     \* responses stored by the receive handler so far
    arg,                          \* its mode / info / size argument
    ret,                          \* the value it returned
    txlog,                        \* frames handed to luminox_tx by that call, in order
    last_scan,                    \* how the last luminox_process_response of that call ended
    luminox_complete_uart_rx,     \* the flag the receive handler sets (luminox.c, extern)
    sensor_mode,                  \* the output mode the sensor is in
    wire,                         \* responses on their way from the sensor, oldest first
    cmd_seq,                      \* commands transmitted so far
    stream_count,                 \* unsolicited frames the sensor has sent so far
    buf_tag,                      \* which command the response in luminox_data answers (0: none)
    decoded_tag,                  \* buf_tag at the last decode
    timer,                        \* luminox_wait_for_response: its local timer
    flag_reads,                   \* the values its loop condition has read so far, in order
    max_written,                  \* highest index of luminox_data[] the last memcpy wrote to
    scan_i                        \* luminox_process_response in progress: its index i

handler_vars ==
    <<current_mode, current_ppO2, current_O2, current_temp,
      current_barometric_pressure, luminox_data, err_code>>

link_vars ==
    <<luminox_complete_uart_rx, sensor_mode, wire, cmd_seq, stream_count, buf_tag>>

wait_vars == <<timer, flag_reads>>

\* the positions of the two walks over the buffer, memcpy's and the scan's
walk_vars == <<max_written, scan_i>>

vars ==
    <<handler_vars, pc, op, step, rx_count, arg, ret, txlog, last_scan, link_vars,
      decoded_tag, wait_vars, walk_vars>>

Handler ==
    [current_mode |-> current_mode,
     current_ppO2 |-> current_ppO2,
     current_O2 |-> current_O2,
     current_temp |-> current_temp,
     current_barometric_pressure |-> current_barometric_pressure,
     luminox_data |-> luminox_data,
     err_code |-> err_code]

\* the handler becomes h
Store(h) ==
    /\ current_mode' = h.current_mode
    /\ current_ppO2' = h.current_ppO2
    /\ current_O2' = h.current_O2
    /\ current_temp' = h.current_temp
    /\ current_barometric_pressure' = h.current_barometric_pressure
    /\ luminox_data' = h.luminox_data
    /\ err_code' = h.err_code

\* no value: a void function, a call that did not return, no argument
NoRet == 0 - 1
NoArg == 0 - 1
NoByte == 0 - 1
NoScan == [stop |-> "none", i |-> 0, digit |-> NoByte, maxi |-> 0 - 1]

memset(n, c) == [k \in 1..n |-> c]

\* memcpy(dst, src, n) for n <= Len(dst)
memcpy(dst, src, n) == [k \in 1..Len(dst) |-> IF k <= n THEN src[k] ELSE dst[k]]

\* n bytes of mem from index k (0-based)
Bytes(mem, k, n) == [j \in 1..n |-> mem[k + j]]

Max(a, b) == IF a >= b THEN a ELSE b

(* ------------------------------------------------ luminox_error_handler *)

\* luminox_error_handler reading the byte before the error digit
luminox_error_handler_index2(h) ==
    LET c == h.luminox_data[2 + 1]
    IN  CASE c = CH_0 -> LUMINOX_ERR_RX_OVERFLOW
          [] c = CH_1 -> LUMINOX_ERR_INVALID_CMD
          [] c = CH_2 -> LUMINOX_ERR_INVALID_FRAME
          [] c = CH_3 -> LUMINOX_ERR_INVALID_ARG
          [] OTHER -> LUMINOX_ERROR

luminox_error_handler(h) ==
    LET c == h.luminox_data[3 + 1]
    IN  CASE c = CH_0 -> LUMINOX_ERR_RX_OVERFLOW
          [] c = CH_1 -> LUMINOX_ERR_INVALID_CMD
          [] c = CH_2 -> LUMINOX_ERR_INVALID_FRAME
          [] c = CH_3 -> LUMINOX_ERR_INVALID_ARG
          [] OTHER -> LUMINOX_ERROR

(* --------------------------------------------- luminox_process_response *)

\* ModeEcho with a default case that falls back to the default mode
ModeEchoDefaultOff(cur, c) ==
    CASE c = CH_0 -> LUMINOX_MODE_STREAMING
      [] c = CH_1 -> LUMINOX_MODE_POLLING
      [] c = CH_2 -> LUMINOX_MODE_OFF
      [] OTHER -> LUMINOX_MODE_DEFAULT

\* ModeEcho with the first two enumerators exchanged
ModeEchoSwapped(cur, c) ==
    CASE c = CH_0 -> LUMINOX_MODE_POLLING
      [] c = CH_1 -> LUMINOX_MODE_STREAMING
      [] c = CH_2 -> LUMINOX_MODE_OFF
      [] OTHER -> cur

\* the inner switch on luminox_data[i + 3] of case MODE_OUTPUT
ModeEcho(cur, c) ==
    CASE c = CH_0 -> LUMINOX_MODE_STREAMING
      [] c = CH_1 -> LUMINOX_MODE_POLLING
      [] c = CH_2 -> LUMINOX_MODE_OFF
      [] OTHER -> cur

\* the statement at label EndWhile
EndWhile(h) == [h EXCEPT !.err_code = LUMINOX_SUCCESS]

\* case ERROR_RESPONSE up to its goto
ErrorCase(h) == [h EXCEPT !.err_code = luminox_error_handler(h)]

ScanResult(h, stop, i, digit, maxi) ==
    [h |-> h, stop |-> stop, i |-> i, digit |-> digit, maxi |-> maxi]

\* the bytes with a case that does more than i++
Dispatching(c) ==
    c \in {TERMINATOR, ERROR_RESPONSE, MODE_OUTPUT, PPO2, O2, TEMPERATURE,
           BAROMETRIC_PRESSURE}

\* The cases SEPARATOR, SENSOR_STATUS, SENSOR_INFORMATION and default only
\* step to the next byte: the index the loop reaches from i by such steps
\* (Len(mem) when it runs off mem).
SkipTo(mem, i) ==
    LET S == {j \in i..(Len(mem) - 1) : Dispatching(mem[j + 1])}
    IN  IF S = {} THEN Len(mem) ELSE CHOOSE j \in S : \A k \in S : j <= k

\* The while loop from index i0.  mem is luminox_data followed by the OobLen
\* bytes behind it; stk gives, per measurement tag, the bytes behind the
\* local array handed to atof.  A read past mem ends the call as "lost".
RECURSIVE Scan(_, _, _, _, _)
Scan(h, mem, stk, i0, maxi) ==
    LET i == SkipTo(mem, i0) IN
    IF i >= Len(mem) THEN ScanResult(h, "lost", i, NoByte, Max(maxi, i))
    ELSE
    LET c == mem[i + 1]
        m == Max(maxi, i)
        \* a measurement case: n field bytes from i + 2, then i += n - 1, i++
        Field(n, g) == atof(Bytes(mem, i + 2, n) \o g)
        Fits(n) == i + 2 + n <= Len(mem)
    IN  CASE c = TERMINATOR ->
               ScanResult(EndWhile(h), "LF", i, NoByte, m)
          [] c = ERROR_RESPONSE ->
               ScanResult(EndWhile(ErrorCase(h)), "E", i, h.luminox_data[3 + 1], Max(m, 3))
          [] c = MODE_OUTPUT ->
               IF i + 3 >= Len(mem)
               THEN ScanResult(h, "lost", i, NoByte, i + 3)
               ELSE ScanResult(
                        EndWhile([h EXCEPT !.current_mode = ModeEcho(@, mem[i + 3 + 1])]),
                        "M", i, mem[i + 3 + 1], i + 3)
          [] c = PPO2 ->
               IF ~Fits(6) THEN ScanResult(h, "lost", i, NoByte, i + 7)
               ELSE Scan([h EXCEPT !.current_ppO2 = Field(6, stk.ppo2_data)],
                         mem, stk, i + 8, i + 7)
          [] c = O2 ->
               IF ~Fits(6) THEN ScanResult(h, "lost", i, NoByte, i + 7)
               ELSE Scan([h EXCEPT !.current_O2 = Field(6, stk.o2_data)],
                         mem, stk, i + 8, i + 7)
          [] c = TEMPERATURE ->
               IF ~Fits(5) THEN ScanResult(h, "lost", i, NoByte, i + 6)
               ELSE Scan([h EXCEPT !.current_temp = Field(5, stk.temp_data)],
                         mem, stk, i + 7, i + 6)
          [] c = BAROMETRIC_PRESSURE ->
               IF ~Fits(4) THEN ScanResult(h, "lost", i, NoByte, i + 5)
               ELSE Scan([h EXCEPT !.current_barometric_pressure =
                                       Field(4, stk.barometric_data)],
                         mem, stk, i + 6, i + 5)

\* the cases ERROR_RESPONSE and MODE_OUTPUT ending in break, not in goto
\* EndWhile: the loop goes on behind the tag
luminox_process_response_break(h, oob, stk) ==
    LET mem == h.luminox_data \o oob
        r == Scan(h, mem, stk, 0, 0 - 1)
    IN  IF r.stop \in {"E", "M"}
        THEN [Scan(r.h, mem, stk, r.i + 1, r.maxi)
                 EXCEPT !.stop = r.stop, !.i = r.i, !.digit = r.digit]
        ELSE r

luminox_process_response(h, oob, stk) ==
    Scan(h, h.luminox_data \o oob, stk, 0, 0 - 1)

(* ------------------------------------------------------------ transport *)

\* mode_msg with the digits one too high
mode_msg_shifted(mode) ==
    <<MODE_OUTPUT, SEPARATOR, CH_1 + mode, CR, TERMINATOR, NUL>>

\* info_req with the digit never filled in ("# x\r\n" as initialised)
info_req_unset(info) ==
    <<SENSOR_INFORMATION, SEPARATOR, 120, CR, TERMINATOR, NUL>>

\* the local arrays mode_msg, info_req and req after the switch (a string
\* literal ends with NUL)
mode_msg(mode) ==
    <<MODE_OUTPUT, SEPARATOR,
      CASE mode = LUMINOX_MODE_STREAMING -> CH_0
        [] mode = LUMINOX_MODE_POLLING -> CH_1
        [] mode = LUMINOX_MODE_OFF -> CH_2,
      CR, TERMINATOR, NUL>>

info_req(info) ==
    <<SENSOR_INFORMATION, SEPARATOR,
      CASE info = LUMINOX_INFO_DATE_OF_MFG -> CH_0
        [] info = LUMINOX_INFO_SERIAL_NUM -> CH_1
        [] info = LUMINOX_INFO_SW_VER -> CH_2,
      CR, TERMINATOR, NUL>>

\* req[] with its line ending the wrong way round
req_lf_first(tag) == <<tag, TERMINATOR, CR, NUL>>

\* unsigned char req[] = "O\r\n" and its five siblings
req(tag) == <<tag, CR, TERMINATOR, NUL>>

\* the sizes passed to luminox_tx with them
ArgFrameSize == 5
ReqFrameSize == 3

\* what luminox_tx(request, size) is handed: the first size bytes of request
TxFrame(request, size) == SubSeq(request, 1, size)

ValidModes == {LUMINOX_MODE_STREAMING, LUMINOX_MODE_POLLING, LUMINOX_MODE_OFF}
ValidInfos == {LUMINOX_INFO_DATE_OF_MFG, LUMINOX_INFO_SERIAL_NUM, LUMINOX_INFO_SW_VER}

\* arguments a caller may pass: the enumerators and one value outside them
ModeArgs == ValidModes \cup {3}
InfoArgs == ValidInfos \cup {3}

\* response frames of the sensor, as the function comments give them
ModeReply(d) == <<MODE_OUTPUT, SEPARATOR, CH_0, d, CR, TERMINATOR>>
ErrorReply(d) == <<ERROR_RESPONSE, SEPARATOR, CH_0, d, CR, TERMINATOR>>
Ppo2Field == <<PPO2, SEPARATOR, CH_0, CH_0, CH_2, CH_1, CH_DOT, CH_0>>
TempField == <<TEMPERATURE, SEPARATOR, CH_MINUS, CH_0, CH_3, CH_DOT, CH_1>>
PressField == <<BAROMETRIC_PRESSURE, SEPARATOR, CH_1, CH_0, CH_1, CH_3>>
O2Field == <<O2, SEPARATOR, CH_0, CH_2, CH_0, CH_DOT, Digit(9), CH_1>>
StatusField == <<SENSOR_STATUS, SEPARATOR, CH_0, CH_0, CH_0, CH_0>>
EndOfFrame == <<CR, TERMINATOR>>

Ppo2Reply == Ppo2Field \o EndOfFrame
AllReply ==
    Ppo2Field \o <<SEPARATOR>> \o TempField \o <<SEPARATOR>> \o PressField
        \o <<SEPARATOR>> \o O2Field \o <<SEPARATOR>> \o StatusField \o EndOfFrame
InfoReply == <<SENSOR_INFORMATION, SEPARATOR, CH_0, CH_0, CH_0, CH_1, CH_2>> \o EndOfFrame

\* frames no sensor sends: a measurement followed by an error tag, a mode
\* echo with a digit outside 0..2, a frame cut before its line feed
Ppo2ThenError == Ppo2Field \o ErrorReply(CH_1)
BadModeReply == ModeReply(Digit(9))
CutReply == <<SENSOR_STATUS, SEPARATOR, CH_0, CH_0, CR>>

Replies ==
    {ModeReply(CH_0), ModeReply(CH_1), ModeReply(CH_2),
     ErrorReply(CH_0), ErrorReply(Digit(9)),
     Ppo2Reply, AllReply, InfoReply,
     Ppo2ThenError, BadModeReply, CutReply}

\* luminox_update_data: memcpy(luminox_handler->luminox_data, p_response, size)
UpdateData(h, p_response, size) ==
    [h EXCEPT !.luminox_data = memcpy(@, p_response, size)]

\* bytes that may lie behind luminox_data[] and behind a local field array
OobBytes == {NUL, TERMINATOR, CH_1}
GarbageBytes == {NUL, Digit(5)}

SeqsOf(S, n) == [1..n -> S]

\* the bytes behind the buffer matter only to a scan that leaves the buffer
OobChoices(h) ==
    LET none == [ppo2_data |-> <<>>, o2_data |-> <<>>, temp_data |-> <<>>,
                 barometric_data |-> <<>>]
    IN  IF luminox_process_response(h, <<>>, none).stop = "lost"
        THEN SeqsOf(OobBytes, OobLen) ELSE {<<>>}

StackChoices ==
    {[ppo2_data |-> g, o2_data |-> g, temp_data |-> g, barometric_data |-> g] :
        g \in SeqsOf(GarbageBytes, StackLen)}

\* every way one luminox_process_response call on h can end
Decodes(h) ==
    {luminox_process_response(h, oob, stk) : oob \in OobChoices(h), stk \in StackChoices}

Summary(r) == [stop |-> r.stop, i |-> r.i, digit |-> r.digit, maxi |-> r.maxi]

(* ---------------------------------------------------- request functions *)

\* A request function up to its call of luminox_tx: the main thread is
\* inside the callback until the callback returns.
CallTx(name, a, request, size) ==
    /\ pc = "idle"
    /\ cmd_seq < MaxCmds
    /\ pc' = "tx"
    /\ op' = name
    /\ arg' = a
    /\ step' = 0
    /\ ret' = NoRet
    /\ txlog' = <<TxFrame(request, size)>>
    /\ last_scan' = NoScan
    /\ UNCHANGED <<walk_vars, wait_vars, handler_vars, rx_count, link_vars, decoded_tag>>

\* Reject returning the generic error code
RejectGeneric(name, a, code) ==
    /\ pc = "idle"
    /\ op' = name
    /\ arg' = a
    /\ step' = 0
    /\ ret' = LUMINOX_ERROR
    /\ txlog' = <<>>
    /\ last_scan' = NoScan
    /\ UNCHANGED <<walk_vars, wait_vars, handler_vars, pc, rx_count, link_vars, decoded_tag>>

\* the default case of the switch: return code without a transmission
Reject(name, a, code) ==
    /\ pc = "idle"
    /\ op' = name
    /\ arg' = a
    /\ step' = 0
    /\ ret' = code
    /\ txlog' = <<>>
    /\ last_scan' = NoScan
    /\ UNCHANGED <<walk_vars, wait_vars, handler_vars, pc, rx_count, link_vars, decoded_tag>>

luminox_set_ouput_mode ==
    \E mode \in ModeArgs :
        IF mode \in ValidModes
        THEN CallTx("luminox_set_ouput_mode", mode, mode_msg(mode), ArgFrameSize)
        ELSE Reject("luminox_set_ouput_mode", mode, LUMINOX_ERR_INVALID_MODE)

luminox_request_sensor_info ==
    \E info \in InfoArgs :
        IF info \in ValidInfos
        THEN CallTx("luminox_request_sensor_info", info, info_req(info), ArgFrameSize)
        ELSE Reject("luminox_request_sensor_info", info, LUMINOX_ERR_INVALID_INFO)

luminox_request_ppO2 ==
    CallTx("luminox_request_ppO2", NoArg, req(PPO2), ReqFrameSize)

luminox_request_O2 ==
    CallTx("luminox_request_O2", NoArg, req(O2), ReqFrameSize)

luminox_request_temp ==
    CallTx("luminox_request_temp", NoArg, req(TEMPERATURE), ReqFrameSize)

luminox_request_barometric_pressure ==
    CallTx("luminox_request_barometric_pressure", NoArg, req(BAROMETRIC_PRESSURE),
           ReqFrameSize)

luminox_request_sensor_status ==
    CallTx("luminox_request_sensor_status", NoArg, req(SENSOR_STATUS), ReqFrameSize)

luminox_request_all ==
    CallTx("luminox_request_all", NoArg, req(ALL), ReqFrameSize)

\* what a request function returns after luminox_process_response
ReturnValue(h) == h.err_code

\* luminox_tx has returned to a request function called by the application:
\* luminox_process_response, then return err_code
TxReturn ==
    /\ pc = "decode"
    /\ op # "luminox_init"
    /\ \E r \in Decodes(Handler) :
        /\ Store(r.h)
        /\ last_scan' = Summary(r)
        /\ pc' = IF r.stop = "lost" THEN "lost" ELSE "idle"
        /\ ret' = IF r.stop = "lost" THEN NoRet ELSE ReturnValue(r.h)
    /\ decoded_tag' = buf_tag
    /\ UNCHANGED <<walk_vars, wait_vars, op, arg, step, txlog, rx_count, link_vars>>

\* luminox_process_response called by the application (the super loop)
ProcessResponse ==
    /\ pc = "idle"
    /\ \E r \in Decodes(Handler) :
        /\ Store(r.h)
        /\ last_scan' = Summary(r)
        /\ pc' = IF r.stop = "lost" THEN "lost" ELSE "idle"
    /\ op' = "luminox_process_response"
    /\ arg' = NoArg
    /\ step' = 0
    /\ ret' = NoRet
    /\ txlog' = <<>>
    /\ decoded_tag' = buf_tag
    /\ UNCHANGED <<walk_vars, wait_vars, rx_count, link_vars>>

(* --------------------------------------------------------- luminox_init *)

\* InitFrame with the serial number requested before the date
InitFrameSwapped(n) ==
    CASE n = 1 -> TxFrame(mode_msg(LUMINOX_MODE_POLLING), ArgFrameSize)
      [] n = 2 -> TxFrame(info_req(LUMINOX_INFO_SERIAL_NUM), ArgFrameSize)
      [] n = 3 -> TxFrame(info_req(LUMINOX_INFO_DATE_OF_MFG), ArgFrameSize)
      [] n = 4 -> TxFrame(info_req(LUMINOX_INFO_SW_VER), ArgFrameSize)
      [] n = 5 -> TxFrame(mode_msg(LUMINOX_MODE_DEFAULT), ArgFrameSize)

\* the command of the n-th request of luminox_init
InitFrame(n) ==
    CASE n = 1 -> TxFrame(mode_msg(LUMINOX_MODE_POLLING), ArgFrameSize)
      [] n = 2 -> TxFrame(info_req(LUMINOX_INFO_DATE_OF_MFG), ArgFrameSize)
      [] n = 3 -> TxFrame(info_req(LUMINOX_INFO_SERIAL_NUM), ArgFrameSize)
      [] n = 4 -> TxFrame(info_req(LUMINOX_INFO_SW_VER), ArgFrameSize)
      [] n = 5 -> TxFrame(mode_msg(LUMINOX_MODE_DEFAULT), ArgFrameSize)

InitRequests == 5

\* InitReset without the reset of current_temp
InitResetKeepsTemp(h) ==
    [h EXCEPT !.current_mode = LUMINOX_MODE_DEFAULT,
              !.current_ppO2 = Zero,
              !.current_O2 = Zero,
              !.current_barometric_pressure = Zero,
              !.luminox_data = memset(UART_RX_BUF_SIZE, NUL),
              !.err_code = LUMINOX_SUCCESS]

\* the statements of luminox_init after its last request
InitReset(h) ==
    [h EXCEPT !.current_mode = LUMINOX_MODE_DEFAULT,
              !.current_ppO2 = Zero,
              !.current_O2 = Zero,
              !.current_temp = Zero,
              !.current_barometric_pressure = Zero,
              !.luminox_data = memset(UART_RX_BUF_SIZE, NUL),
              !.err_code = LUMINOX_SUCCESS]

\* luminox_init up to the luminox_tx call of its first request
luminox_init_call ==
    /\ pc = "idle"
    /\ pc' = "tx"
    /\ op' = "luminox_init"
    /\ arg' = NoArg
    /\ step' = 1
    /\ ret' = NoRet
    /\ txlog' = <<InitFrame(1)>>
    /\ last_scan' = NoScan
    /\ UNCHANGED <<walk_vars, wait_vars, handler_vars, rx_count, link_vars, decoded_tag>>

\* luminox_tx has returned inside request step < 5 of luminox_init: the
\* request decodes and returns (the first one's value is stored in
\* err_code), and the next request runs up to its luminox_tx call
luminox_init_next ==
    /\ pc = "decode"
    /\ op = "luminox_init"
    /\ step < InitRequests
    /\ \E r \in Decodes(Handler) :
        /\ Store(IF r.stop # "lost" /\ step = 1
                 THEN [r.h EXCEPT !.err_code = ReturnValue(r.h)] ELSE r.h)
        /\ last_scan' = Summary(r)
        /\ pc' = IF r.stop = "lost" THEN "lost" ELSE "tx"
        /\ step' = IF r.stop = "lost" THEN step ELSE step + 1
        /\ txlog' = IF r.stop = "lost" THEN txlog ELSE Append(txlog, InitFrame(step + 1))
    /\ decoded_tag' = buf_tag
    /\ UNCHANGED <<walk_vars, wait_vars, op, arg, ret, rx_count, link_vars>>

\* luminox_tx has returned inside the last request of luminox_init: decode,
\* then the reset of the handler
luminox_init_finish ==
    /\ pc = "decode"
    /\ op = "luminox_init"
    /\ step = InitRequests
    /\ \E r \in Decodes(Handler) :
        /\ Store(IF r.stop = "lost" THEN r.h ELSE InitReset(r.h))
        /\ last_scan' = Summary(r)
        /\ pc' = IF r.stop = "lost" THEN "lost" ELSE "idle"
    /\ decoded_tag' = buf_tag
    /\ UNCHANGED <<walk_vars, wait_vars, op, arg, step, ret, txlog, rx_count, link_vars>>

luminox_init ==
    \/ luminox_init_call
    \/ luminox_init_next
    \/ luminox_init_finish

(* ------------------------------------- an application-defined transport *)

\* luminox_tx is the application's callback: here it is any function that
\* returns, and the receive handler stores responses of any kind at any time.
luminox_tx ==
    /\ pc = "tx"
    /\ pc' = "decode"
    /\ UNCHANGED <<walk_vars, wait_vars, handler_vars, op, arg, step, ret, txlog, last_scan, rx_count,
                   link_vars, decoded_tag>>

\* luminox_update_data called by the receive handler, which may interrupt
\* the main thread anywhere
luminox_update_data ==
    /\ pc # "lost"
    /\ rx_count < MaxRx
    /\ rx_count' = rx_count + 1
    /\ \E f \in Replies :
        /\ Store(UpdateData(Handler, f, Len(f)))
        /\ max_written' = Len(f) - 1
    /\ UNCHANGED <<scan_i, wait_vars, pc, op, arg, step, ret, txlog, last_scan, link_vars, decoded_tag>>

Stale == <<7, 0>>

Blank == memset(UART_RX_BUF_SIZE, NUL)

\* The handler is an object of the application, holding what earlier use
\* left in it, until luminox_init has run.
InitHandler ==
    /\ current_mode \in ValidModes
    /\ current_ppO2 = Stale
    /\ current_O2 = Stale
    /\ current_temp = Stale
    /\ current_barometric_pressure = Stale
    /\ luminox_data \in
        {Blank, memcpy(Blank, Ppo2Reply, Len(Ppo2Reply))}
    /\ err_code = LUMINOX_ERR_TIMEOUT
    /\ pc = "idle"
    /\ op = "none"
    /\ step = 0
    /\ rx_count = 0
    /\ arg = NoArg
    /\ ret = NoRet
    /\ txlog = <<>>
    /\ last_scan = NoScan

Init ==
    /\ InitHandler
    /\ luminox_complete_uart_rx = FALSE
    /\ sensor_mode = LUMINOX_MODE_POLLING
    /\ wire = <<>>
    /\ cmd_seq = 0
    /\ stream_count = 0
    /\ buf_tag = 0
    /\ decoded_tag = 0
    /\ timer = 0
    /\ flag_reads = <<>>
    /\ max_written = 0 - 1
    /\ scan_i = 0

Next ==
    \/ luminox_set_ouput_mode
    \/ luminox_request_sensor_info
    \/ luminox_request_ppO2
    \/ luminox_request_O2
    \/ luminox_request_temp
    \/ luminox_request_barometric_pressure
    \/ luminox_request_sensor_status
    \/ luminox_request_all
    \/ luminox_tx
    \/ TxReturn
    \/ ProcessResponse
    \/ luminox_update_data
    \/ luminox_init

Spec == Init /\ [][Next]_vars

(* ------------------------------- the transport the README recommends *)

\* void uart_write(unsigned char * tx, uint8_t size) {
\*     complete_uart_rx = false;
\*     uart_tx(tx, size);
\*     while(!complete_uart_rx) {} // set this flag to true in uart event handler
\* }

\* the sensor's response to a command, as the function comments give it
SensorReply(cmd) ==
    CASE cmd[1] = MODE_OUTPUT -> ModeReply(cmd[3])
      [] cmd[1] = PPO2 -> Ppo2Reply
      [] cmd[1] = O2 -> O2Field \o EndOfFrame
      [] cmd[1] = TEMPERATURE -> TempField \o EndOfFrame
      [] cmd[1] = BAROMETRIC_PRESSURE -> PressField \o EndOfFrame
      [] cmd[1] = SENSOR_STATUS -> StatusField \o EndOfFrame
      [] cmd[1] = ALL -> AllReply
      [] cmd[1] = SENSOR_INFORMATION -> InfoReply

\* the output mode of the sensor after a command
SensorMode(cmd, mode) == IF cmd[1] = MODE_OUTPUT THEN cmd[3] - CH_0 ELSE mode

uart_write_clear ==
    /\ pc = "tx"
    /\ pc' = "tx_clear"
    /\ luminox_complete_uart_rx' = FALSE
    /\ UNCHANGED <<walk_vars, wait_vars, handler_vars, op, arg, step, ret, txlog, last_scan, rx_count,
                   sensor_mode, wire, cmd_seq, stream_count, buf_tag, decoded_tag>>

\* uart_tx: the command reaches the sensor, whose response sets out
uart_write_tx ==
    /\ pc = "tx_clear"
    /\ pc' = "tx_wait"
    /\ cmd_seq' = cmd_seq + 1
    /\ wire' = Append(wire, [frame |-> SensorReply(txlog[Len(txlog)]),
                             tag |-> cmd_seq + 1])
    /\ sensor_mode' = SensorMode(txlog[Len(txlog)], sensor_mode)
    /\ UNCHANGED <<walk_vars, wait_vars, handler_vars, op, arg, step, ret, txlog, last_scan, rx_count,
                   luminox_complete_uart_rx, stream_count, buf_tag, decoded_tag>>

\* the while loop ends and uart_write returns
uart_write_return ==
    /\ pc = "tx_wait"
    /\ luminox_complete_uart_rx
    /\ pc' = "decode"
    /\ UNCHANGED <<walk_vars, wait_vars, handler_vars, op, arg, step, ret, txlog, last_scan, rx_count,
                   link_vars, decoded_tag>>

\* the receive handler on a complete response: luminox_update_data, then the
\* flag; it interrupts the main thread anywhere
uart_event_handler ==
    /\ pc # "lost"
    /\ wire # <<>>
    /\ Store(UpdateData(Handler, Head(wire).frame, Len(Head(wire).frame)))
    /\ max_written' = Len(Head(wire).frame) - 1
    /\ buf_tag' = Head(wire).tag
    /\ wire' = Tail(wire)
    /\ luminox_complete_uart_rx' = TRUE
    /\ UNCHANGED <<scan_i, wait_vars, pc, op, arg, step, ret, txlog, last_scan, rx_count, sensor_mode,
                   cmd_seq, stream_count, decoded_tag>>

\* in streaming mode the sensor sends a frame of measurements unasked
sensor_stream ==
    /\ sensor_mode = LUMINOX_MODE_STREAMING
    /\ stream_count < MaxStream
    /\ stream_count' = stream_count + 1
    /\ wire' = Append(wire, [frame |-> AllReply, tag |-> 0])
    /\ UNCHANGED <<walk_vars, wait_vars, handler_vars, pc, op, arg, step, ret, txlog, last_scan, rx_count,
                   luminox_complete_uart_rx, sensor_mode, cmd_seq, buf_tag, decoded_tag>>

NextReadme ==
    \/ luminox_set_ouput_mode
    \/ luminox_request_sensor_info
    \/ luminox_request_ppO2
    \/ luminox_request_O2
    \/ luminox_request_temp
    \/ luminox_request_barometric_pressure
    \/ luminox_request_sensor_status
    \/ luminox_request_all
    \/ uart_write_clear
    \/ uart_write_tx
    \/ uart_write_return
    \/ TxReturn
    \/ uart_event_handler
    \/ sensor_stream

\* request functions over the README's transport, the sensor in polling
\* mode at first
SpecReadme == Init /\ [][NextReadme]_vars

(* ------------------------------------------------ the decode on its own *)

\* luminox_get_output_mode, luminox_get_ppO2, ...: return the field
Getter(name, value) ==
    /\ pc = "idle"
    /\ op' = name
    /\ arg' = NoArg
    /\ step' = 0
    /\ ret' = value
    /\ txlog' = <<>>
    /\ last_scan' = NoScan
    /\ UNCHANGED <<walk_vars, wait_vars, handler_vars, pc, rx_count, link_vars, decoded_tag>>

luminox_get_output_mode == Getter("luminox_get_output_mode", current_mode)

luminox_get_ppO2 == Getter("luminox_get_ppO2", current_ppO2)

\* luminox_get_O2 returning the field of its neighbour
luminox_get_O2_copied == Getter("luminox_get_O2", current_ppO2)

luminox_get_O2 == Getter("luminox_get_O2", current_O2)

luminox_get_temp == Getter("luminox_get_temp", current_temp)

luminox_get_barometric_pressure ==
    Getter("luminox_get_barometric_pressure", current_barometric_pressure)

\* luminox_error_handler called on the handler as it is
ErrorHandlerCall ==
    /\ pc = "idle"
    /\ op' = "luminox_error_handler"
    /\ arg' = NoArg
    /\ step' = 0
    /\ ret' = luminox_error_handler(Handler)
    /\ txlog' = <<>>
    /\ last_scan' = NoScan
    /\ UNCHANGED <<walk_vars, wait_vars, handler_vars, pc, rx_count, link_vars, decoded_tag>>

\* every value of a uint8_t
ByteValues == 0..255

\* more frames of the documented shapes
Ppo2High ==
    <<PPO2, SEPARATOR, CH_1, CH_2, CH_3, Digit(4), CH_DOT, Digit(5)>> \o EndOfFrame
O2Reply == O2Field \o EndOfFrame
TempReply == TempField \o EndOfFrame
PressReply == PressField \o EndOfFrame
ZeroPressReply ==
    <<BAROMETRIC_PRESSURE, SEPARATOR, CH_0, CH_0, CH_0, CH_0>> \o EndOfFrame

\* a sensor without the barometric pressure sensor returns "------"
DashField ==
    <<BAROMETRIC_PRESSURE, SEPARATOR, CH_MINUS, CH_MINUS, CH_MINUS, CH_MINUS,
      CH_MINUS, CH_MINUS>>
DashReply == DashField \o EndOfFrame
AllDashReply ==
    Ppo2Field \o <<SEPARATOR>> \o TempField \o <<SEPARATOR>> \o DashField
        \o <<SEPARATOR>> \o O2Field \o <<SEPARATOR>> \o StatusField \o EndOfFrame

\* frames shorter than the offsets the decode uses: a mode echo whose line
\* feed comes before the byte at tag + 3, a ppO2 field cut after one digit
ShortModeReply(d) == <<MODE_OUTPUT, CR, TERMINATOR, d>>
CutPpo2 == <<PPO2, SEPARATOR, CH_1, CR, TERMINATOR>>

\* a stop tag with measurement fields behind it on the same line
ModeThenPpo2 == <<MODE_OUTPUT, SEPARATOR, CH_0, CH_1, SEPARATOR>> \o Ppo2Reply
ErrorThenAll == <<ERROR_RESPONSE, SEPARATOR, CH_0, CH_1, SEPARATOR>> \o AllReply

DecodeFrames ==
    {Ppo2Reply, Ppo2High, O2Reply, TempReply, PressReply, ZeroPressReply,
     DashReply, AllReply, AllDashReply, InfoReply,
     ModeReply(CH_0), ModeReply(CH_1), ModeReply(CH_2), BadModeReply,
     ShortModeReply(CH_0), ShortModeReply(CH_1), CutPpo2, Ppo2ThenError,
     ModeThenPpo2, ErrorThenAll}

ErrorFrames == {ErrorReply(b) : b \in ByteValues}

\* luminox_data after luminox_update_data(f, Len(f)) on a buffer bg
Overlay(bg, f) == memcpy(bg, f, Len(f))

\* a blank buffer, and one that holds an earlier composite frame
Backgrounds == {Blank, Overlay(Blank, AllReply)}

DecodeBuffers ==
    {Blank}
        \cup {Overlay(bg, f) : bg \in Backgrounds, f \in DecodeFrames}
        \cup {Overlay(Blank, f) : f \in ErrorFrames}

InitDecode ==
    /\ current_mode \in ValidModes
    /\ current_ppO2 = Stale
    /\ current_O2 = Stale
    /\ current_temp = Stale
    /\ current_barometric_pressure = Stale
    /\ luminox_data \in DecodeBuffers
    /\ err_code = LUMINOX_ERR_TIMEOUT
    /\ pc = "idle"
    /\ op = "none"
    /\ step = 0
    /\ rx_count = 0
    /\ arg = NoArg
    /\ ret = NoRet
    /\ txlog = <<>>
    /\ last_scan = NoScan
    /\ luminox_complete_uart_rx = FALSE
    /\ sensor_mode = LUMINOX_MODE_POLLING
    /\ wire = <<>>
    /\ cmd_seq = 0
    /\ stream_count = 0
    /\ buf_tag = 0
    /\ decoded_tag = 0
    /\ timer = 0
    /\ flag_reads = <<>>
    /\ max_written = 0 - 1
    /\ scan_i = 0

NextDecode ==
    \/ ProcessResponse
    \/ ErrorHandlerCall
    \/ luminox_get_output_mode
    \/ luminox_get_ppO2
    \/ luminox_get_O2
    \/ luminox_get_temp
    \/ luminox_get_barometric_pressure

\* the decode, luminox_error_handler and the getters applied to a handler
\* whose buffer holds any of DecodeBuffers
SpecDecode == InitDecode /\ [][NextDecode]_vars

(* --------------------------------------------- luminox_wait_for_response *)

\* uint32_t timer = 0;
WaitCall ==
    /\ pc = "idle"
    /\ pc' = "wait_test"
    /\ op' = "luminox_wait_for_response"
    /\ arg' = NoArg
    /\ step' = 0
    /\ ret' = NoRet
    /\ txlog' = <<>>
    /\ last_scan' = NoScan
    /\ timer' = 0
    /\ flag_reads' = <<>>
    /\ UNCHANGED <<walk_vars, handler_vars, rx_count, link_vars, decoded_tag>>

\* while(!luminox_complete_uart_rx): one read of the flag
WaitTest ==
    /\ pc = "wait_test"
    /\ flag_reads' = Append(flag_reads, luminox_complete_uart_rx)
    /\ pc' = IF luminox_complete_uart_rx THEN "wait_reset" ELSE "wait_timer"
    /\ UNCHANGED <<walk_vars, handler_vars, op, arg, step, ret, txlog, last_scan, rx_count,
                   link_vars, decoded_tag, timer>>

\* WaitTimer giving up one round later
WaitTimerLate ==
    /\ pc = "wait_timer"
    /\ IF timer > RESPONSE_TIMEOUT
       THEN /\ Store([Handler EXCEPT !.err_code = LUMINOX_ERR_TIMEOUT])
            /\ ret' = LUMINOX_ERR_TIMEOUT
            /\ pc' = "idle"
            /\ timer' = timer
       ELSE /\ timer' = timer + 1
            /\ pc' = "wait_test"
            /\ UNCHANGED <<handler_vars, ret>>
    /\ UNCHANGED <<walk_vars, op, arg, step, txlog, last_scan, rx_count, link_vars, decoded_tag,
                   flag_reads>>

\* the loop body: if(timer >= RESPONSE_TIMEOUT) { err_code = ...; return ...; }
\* timer++;
WaitTimer ==
    /\ pc = "wait_timer"
    /\ IF timer >= RESPONSE_TIMEOUT
       THEN /\ Store([Handler EXCEPT !.err_code = LUMINOX_ERR_TIMEOUT])
            /\ ret' = LUMINOX_ERR_TIMEOUT
            /\ pc' = "idle"
            /\ timer' = timer
       ELSE /\ timer' = timer + 1
            /\ pc' = "wait_test"
            /\ UNCHANGED <<handler_vars, ret>>
    /\ UNCHANGED <<walk_vars, op, arg, step, txlog, last_scan, rx_count, link_vars, decoded_tag,
                   flag_reads>>

\* luminox_complete_uart_rx = false; return LUMINOX_SUCCESS;
WaitReset ==
    /\ pc = "wait_reset"
    /\ luminox_complete_uart_rx' = FALSE
    /\ ret' = LUMINOX_SUCCESS
    /\ pc' = "idle"
    /\ UNCHANGED <<walk_vars, handler_vars, op, arg, step, txlog, last_scan, rx_count, sensor_mode,
                   wire, cmd_seq, stream_count, buf_tag, decoded_tag, wait_vars>>

luminox_wait_for_response ==
    \/ WaitCall
    \/ WaitTest
    \/ WaitTimer
    \/ WaitReset

\* the receive interrupt sets the flag, anywhere between two steps of the
\* main thread
rx_interrupt ==
    /\ ~luminox_complete_uart_rx
    /\ luminox_complete_uart_rx' = TRUE
    /\ UNCHANGED <<walk_vars, handler_vars, pc, op, arg, step, ret, txlog, last_scan, rx_count,
                   sensor_mode, wire, cmd_seq, stream_count, buf_tag, decoded_tag,
                   wait_vars>>

RetCodes == LUMINOX_ERR_RX_OVERFLOW..LUMINOX_SUCCESS

InitWait ==
    /\ current_mode = LUMINOX_MODE_POLLING
    /\ current_ppO2 = Stale
    /\ current_O2 = Stale
    /\ current_temp = Stale
    /\ current_barometric_pressure = Stale
    /\ luminox_data = Blank
    /\ err_code \in RetCodes
    /\ pc = "idle"
    /\ op = "none"
    /\ step = 0
    /\ rx_count = 0
    /\ arg = NoArg
    /\ ret = NoRet
    /\ txlog = <<>>
    /\ last_scan = NoScan
    /\ luminox_complete_uart_rx \in BOOLEAN
    /\ sensor_mode = LUMINOX_MODE_POLLING
    /\ wire = <<>>
    /\ cmd_seq = 0
    /\ stream_count = 0
    /\ buf_tag = 0
    /\ decoded_tag = 0
    /\ timer = 0
    /\ flag_reads = <<>>
    /\ max_written = 0 - 1
    /\ scan_i = 0

NextWait ==
    \/ luminox_wait_for_response
    \/ rx_interrupt

\* luminox_wait_for_response against a receive interrupt; the main thread
\* keeps running
SpecWait == InitWait /\ [][NextWait]_vars /\ WF_vars(luminox_wait_for_response)

(* ------------------------------------------- luminox_update_data by size *)

\* the bytes a caller's buffer holds behind the frame it received
PadBytes == {NUL, Digit(5)}

\* a caller's buffer of as many bytes as a uint8_t size can ask for: the
\* frame f, then pad bytes
Received(f, pad) ==
    [k \in 1..(Cardinality(ByteValues) - 1) |-> IF k <= Len(f) THEN f[k] ELSE pad]

\* luminox_retcode_t takes the width of an int, or one byte where the build
\* packs enums
EnumWidths == {1, 4}

\* the bytes of an err_code of width w, lowest first, and back
ErrBytes(e, w) == [j \in 1..w |-> (e \div (256 ^ (j - 1))) % 256]
ErrValue(b) ==
    IF Len(b) = 1 THEN b[1]
    ELSE b[1] + 256 * b[2] + 65536 * b[3] + 16777216 * b[4]

\* err_code, the member behind luminox_data[], after memcpy has written
\* the bytes p_response[UART_RX_BUF_SIZE .. size - 1] over it
ErrCodeOverwritten(e, p_response, size, w) ==
    ErrValue([j \in 1..w |->
                IF UART_RX_BUF_SIZE + j <= size
                THEN p_response[UART_RX_BUF_SIZE + j]
                ELSE ErrBytes(e, w)[j]])

\* memcpy(luminox_handler->luminox_data, p_response, size) for every size:
\* behind index UART_RX_BUF_SIZE - 1 it writes over the members that
\* follow the buffer, as each layout of the handler has them
UpdateDataOutcomes(h, p_response, size) ==
    IF size <= UART_RX_BUF_SIZE THEN {UpdateData(h, p_response, size)}
    ELSE {[UpdateData(h, p_response, UART_RX_BUF_SIZE)
              EXCEPT !.err_code = ErrCodeOverwritten(@, p_response, size, w)] :
            w \in EnumWidths}

luminox_update_data_sized ==
    /\ pc = "idle"
    /\ rx_count < MaxRx
    /\ rx_count' = rx_count + 1
    /\ op' = "luminox_update_data"
    /\ \E f \in {Ppo2Reply, AllReply}, pad \in PadBytes, size \in ByteValues :
        /\ arg' = size
        /\ max_written' = size - 1
        /\ \E h \in UpdateDataOutcomes(Handler, Received(f, pad), size) : Store(h)
    /\ UNCHANGED <<scan_i, wait_vars, pc, step, ret, txlog, last_scan, link_vars,
                   decoded_tag>>

InitUpdate ==
    /\ current_mode \in ValidModes
    /\ current_ppO2 = Stale
    /\ current_O2 = Stale
    /\ current_temp = Stale
    /\ current_barometric_pressure = Stale
    /\ luminox_data \in Backgrounds
    /\ err_code \in {LUMINOX_SUCCESS, LUMINOX_ERR_TIMEOUT}
    /\ pc = "idle"
    /\ op = "none"
    /\ step = 0
    /\ rx_count = 0
    /\ arg = NoArg
    /\ ret = NoRet
    /\ txlog = <<>>
    /\ last_scan = NoScan
    /\ luminox_complete_uart_rx = FALSE
    /\ sensor_mode = LUMINOX_MODE_POLLING
    /\ wire = <<>>
    /\ cmd_seq = 0
    /\ stream_count = 0
    /\ buf_tag = 0
    /\ decoded_tag = 0
    /\ timer = 0
    /\ flag_reads = <<>>
    /\ max_written = 0 - 1
    /\ scan_i = 0

NextUpdate == luminox_update_data_sized

\* luminox_update_data called with every size on a handler in use
SpecUpdate == InitUpdate /\ [][NextUpdate]_vars

(* ------------------------------------------ README super loop, streaming *)

MaxFrames == 2

\* One pass of the while loop that dispatches, with the i++ passes in front
\* of it: the cases of Scan, "more" where the loop goes on from index i.
ScanStep(h, mem, stk, i0) ==
    LET i == SkipTo(mem, i0) IN
    IF i >= Len(mem) THEN ScanResult(h, "lost", i, NoByte, i)
    ELSE
    LET c == mem[i + 1]
        Field(n, g) == atof(Bytes(mem, i + 2, n) \o g)
        Fits(n) == i + 2 + n <= Len(mem)
    IN  CASE c = TERMINATOR ->
               ScanResult(EndWhile(h), "LF", i, NoByte, i)
          [] c = ERROR_RESPONSE ->
               ScanResult(EndWhile(ErrorCase(h)), "E", i, h.luminox_data[3 + 1], Max(i, 3))
          [] c = MODE_OUTPUT ->
               IF i + 3 >= Len(mem)
               THEN ScanResult(h, "lost", i, NoByte, i + 3)
               ELSE ScanResult(
                        EndWhile([h EXCEPT !.current_mode = ModeEcho(@, mem[i + 3 + 1])]),
                        "M", i, mem[i + 3 + 1], i + 3)
          [] c = PPO2 ->
               IF ~Fits(6) THEN ScanResult(h, "lost", i, NoByte, i + 7)
               ELSE ScanResult([h EXCEPT !.current_ppO2 = Field(6, stk.ppo2_data)],
                               "more", i + 8, NoByte, i + 7)
          [] c = O2 ->
               IF ~Fits(6) THEN ScanResult(h, "lost", i, NoByte, i + 7)
               ELSE ScanResult([h EXCEPT !.current_O2 = Field(6, stk.o2_data)],
                               "more", i + 8, NoByte, i + 7)
          [] c = TEMPERATURE ->
               IF ~Fits(5) THEN ScanResult(h, "lost", i, NoByte, i + 6)
               ELSE ScanResult([h EXCEPT !.current_temp = Field(5, stk.temp_data)],
                               "more", i + 7, NoByte, i + 6)
          [] c = BAROMETRIC_PRESSURE ->
               IF ~Fits(4) THEN ScanResult(h, "lost", i, NoByte, i + 5)
               ELSE ScanResult([h EXCEPT !.current_barometric_pressure =
                                             Field(4, stk.barometric_data)],
                               "more", i + 6, NoByte, i + 5)

\* the frames a streaming sensor sends, one after the other
StreamFrames == {AllReply, AllDashReply}

\* the sensor, in streaming mode, sends its next frame
sensor_stream_next ==
    /\ sensor_mode = LUMINOX_MODE_STREAMING
    /\ stream_count < MaxFrames
    /\ stream_count' = stream_count + 1
    /\ \E f \in StreamFrames :
        wire' = Append(wire, [frame |-> f, tag |-> stream_count + 1])
    /\ UNCHANGED <<walk_vars, wait_vars, handler_vars, pc, op, arg, step, ret, txlog,
                   last_scan, rx_count, luminox_complete_uart_rx, sensor_mode, cmd_seq,
                   buf_tag, decoded_tag>>

\* if(complete_uart_rx) found true: luminox_process_response is entered
super_loop_test ==
    /\ pc = "loop"
    /\ luminox_complete_uart_rx
    /\ pc' = "scan"
    /\ op' = "luminox_process_response"
    /\ scan_i' = 0
    /\ last_scan' = NoScan
    /\ decoded_tag' = buf_tag
    /\ UNCHANGED <<max_written, wait_vars, handler_vars, arg, step, ret, txlog, rx_count,
                   link_vars>>

\* luminox_process_response goes on by one dispatching pass of its loop
super_loop_decode ==
    /\ pc = "scan"
    /\ \E oob \in SeqsOf(OobBytes, OobLen), stk \in StackChoices :
        LET r == ScanStep(Handler, luminox_data \o oob, stk, scan_i) IN
        /\ Store(r.h)
        /\ IF r.stop = "more"
           THEN /\ scan_i' = r.i
                /\ pc' = "scan"
                /\ UNCHANGED last_scan
           ELSE /\ scan_i' = r.i
                /\ pc' = IF r.stop = "lost" THEN "lost" ELSE "clear"
                /\ last_scan' = Summary(r)
    /\ UNCHANGED <<max_written, wait_vars, op, arg, step, ret, txlog, rx_count, link_vars,
                   decoded_tag>>

\* complete_uart_rx = false
super_loop_clear ==
    /\ pc = "clear"
    /\ pc' = "loop"
    /\ luminox_complete_uart_rx' = FALSE
    /\ UNCHANGED <<walk_vars, wait_vars, handler_vars, op, arg, step, ret, txlog, last_scan,
                   rx_count, sensor_mode, wire, cmd_seq, stream_count, buf_tag,
                   decoded_tag>>

InitStream ==
    /\ current_mode = LUMINOX_MODE_STREAMING
    /\ current_ppO2 = Zero
    /\ current_O2 = Zero
    /\ current_temp = Zero
    /\ current_barometric_pressure = Zero
    /\ luminox_data = Blank
    /\ err_code = LUMINOX_SUCCESS
    /\ pc = "loop"
    /\ op = "none"
    /\ step = 0
    /\ rx_count = 0
    /\ arg = NoArg
    /\ ret = NoRet
    /\ txlog = <<>>
    /\ last_scan = NoScan
    /\ luminox_complete_uart_rx = FALSE
    /\ sensor_mode = LUMINOX_MODE_STREAMING
    /\ wire = <<>>
    /\ cmd_seq = 0
    /\ stream_count = 0
    /\ buf_tag = 0
    /\ decoded_tag = 0
    /\ timer = 0
    /\ flag_reads = <<>>
    /\ max_written = 0 - 1
    /\ scan_i = 0

NextStream ==
    \/ sensor_stream_next
    \/ uart_event_handler
    \/ super_loop_test
    \/ super_loop_decode
    \/ super_loop_clear

\* the README's super loop against the receive handler, the sensor streaming
SpecStream == InitStream /\ [][NextStream]_vars

(* ------------------------------------------------------------- claims *)

RequestOps ==
    {"luminox_set_ouput_mode", "luminox_request_ppO2", "luminox_request_O2",
     "luminox_request_temp", "luminox_request_barometric_pressure",
     "luminox_request_sensor_status", "luminox_request_all",
     "luminox_request_sensor_info"}

Measurements ==
    <<current_ppO2, current_O2, current_temp, current_barometric_pressure>>

\* the device-fault kind the documentation gives for the digit of an error frame
FaultKind(d) ==
    CASE d = CH_0 -> LUMINOX_ERR_RX_OVERFLOW
      [] d = CH_1 -> LUMINOX_ERR_INVALID_CMD
      [] d = CH_2 -> LUMINOX_ERR_INVALID_FRAME
      [] d = CH_3 -> LUMINOX_ERR_INVALID_ARG
      [] OTHER -> LUMINOX_ERROR

\* C1: when a decode has dispatched on an error frame (tag E first in the
\* buffer), err_code holds the device-fault kind selected by the byte at
\* index 3 once the call has returned, and the request function that ran the
\* decode has returned that kind.
C1_ErrorFrameGivesFaultKind ==
    (pc = "idle" /\ op # "luminox_init" /\ last_scan.stop = "E" /\ last_scan.i = 0)
        => /\ err_code = FaultKind(last_scan.digit)
           /\ op \in RequestOps => ret = FaultKind(last_scan.digit)

ValidDigits == {CH_0, CH_1, CH_2}

ModeOfDigit(d) == d - CH_0

\* a step that is a call of the function name (not the receive handler's)
CallOf(name) == pc = "idle" /\ op' = name /\ rx_count' = rx_count

\* a step in which luminox_process_response runs, inside a request function
\* or called by the application
DecodeStep == (pc = "decode" /\ pc' # "decode") \/ CallOf("luminox_process_response")

\* a step in which a decode dispatched on a mode echo with digit 0, 1 or 2
\* and left current_mode at that mode
ConfirmedByModeReply ==
    /\ DecodeStep
    /\ last_scan'.stop = "M"
    /\ last_scan'.digit \in ValidDigits
    /\ current_mode' = ModeOfDigit(last_scan'.digit)

\* the step that ends luminox_init
InitFinished == op = "luminox_init" /\ pc = "decode" /\ pc' = "idle"

\* C2 as stated: current_mode changes only in a step that decodes a mode
\* echo with digit 0, 1 or 2, and then to the mode of that digit.
C2_ModeOnlyFromModeReply ==
    [][current_mode' # current_mode => ConfirmedByModeReply]_vars

\* C2 amended: current_mode changes only in a step that decodes a mode echo
\* with digit 0, 1 or 2 (to the mode of that digit) or in the step that ends
\* luminox_init (to Off); and whenever a decode outside that last step has
\* dispatched on such an echo, current_mode is the mode of its digit.
C2_ModeFromModeReplyOrInit ==
    [][/\ current_mode' # current_mode =>
            \/ ConfirmedByModeReply /\ ~InitFinished
            \/ InitFinished /\ current_mode' = LUMINOX_MODE_OFF
       /\ (/\ DecodeStep
           /\ last_scan'.stop = "M"
           /\ last_scan'.digit \in ValidDigits
           /\ ~InitFinished)
            => current_mode' = ModeOfDigit(last_scan'.digit)]_vars

C2_Witness ==
    /\ pc = "idle"
    /\ op = "luminox_set_ouput_mode"
    /\ arg = LUMINOX_MODE_POLLING
    /\ last_scan.stop = "M"
    /\ last_scan.digit = CH_1
    /\ current_mode = LUMINOX_MODE_POLLING
    /\ rx_count > 0

\* C3: a luminox_process_response call that ends at the error tag leaves the
\* four measurement fields as they were before the call (luminox_init, which
\* zeroes them itself, set aside).
C3_ErrorStopKeepsMeasurements ==
    [][(last_scan'.stop = "E" /\ op' # "luminox_init") => UNCHANGED Measurements]_vars

\* C4: a request function that has returned has returned the value err_code
\* holds.
C4_ReturnIsErrCode ==
    (pc = "idle" /\ op \in RequestOps) => ret = err_code

\* C5: luminox_set_ouput_mode with a mode outside the enumerators returns
\* InvalidMode, luminox_request_sensor_info with an info kind outside them
\* returns InvalidInfo; the call hands nothing to luminox_tx, runs no decode,
\* and leaves the mode, the four measurements and the buffer unchanged.
C5_InvalidArgumentRejected ==
    [][/\ (CallOf("luminox_set_ouput_mode") /\ arg' \notin ValidModes)
            => /\ ret' = LUMINOX_ERR_INVALID_MODE
               /\ pc' = "idle"
               /\ txlog' = <<>>
               /\ last_scan' = NoScan
               /\ UNCHANGED <<current_mode, Measurements, luminox_data>>
       /\ (CallOf("luminox_request_sensor_info") /\ arg' \notin ValidInfos)
            => /\ ret' = LUMINOX_ERR_INVALID_INFO
               /\ pc' = "idle"
               /\ txlog' = <<>>
               /\ last_scan' = NoScan
               /\ UNCHANGED <<current_mode, Measurements, luminox_data>>]_vars

C5_Witness ==
    /\ op = "luminox_request_sensor_info"
    /\ arg \notin ValidInfos
    /\ ret = LUMINOX_ERR_INVALID_INFO
    /\ rx_count > 0
    /\ current_ppO2 # Stale

\* C6: luminox_set_ouput_mode with a valid mode hands luminox_tx one frame,
\* the 5 bytes 'M' ' ' d CR LF with d = '0' for streaming, '1' for polling,
\* '2' for off, and no other frame up to its return.
C6_ModeFrame ==
    (op = "luminox_set_ouput_mode" /\ arg \in ValidModes)
        => /\ Len(txlog) = 1
           /\ Len(txlog[1]) = 5
           /\ txlog[1] = <<77, 32, 48 + arg, 13, 10>>

C6_Witness ==
    /\ op = "luminox_set_ouput_mode"
    /\ arg = LUMINOX_MODE_OFF
    /\ pc = "idle"
    /\ last_scan.stop = "M"
    /\ txlog = << <<77, 32, 50, 13, 10>> >>

\* C7: luminox_request_sensor_info with a valid info kind hands luminox_tx
\* one frame, the 5 bytes '#' ' ' d CR LF with d = '0' for the date of
\* manufacture, '1' for the serial number, '2' for the software version, and
\* no other frame up to its return.
C7_InfoFrame ==
    (op = "luminox_request_sensor_info" /\ arg \in ValidInfos)
        => /\ Len(txlog) = 1
           /\ Len(txlog[1]) = 5
           /\ txlog[1] = <<35, 32, 48 + arg, 13, 10>>

C7_Witness ==
    /\ op = "luminox_request_sensor_info"
    /\ arg = LUMINOX_INFO_SW_VER
    /\ pc = "idle"
    /\ last_scan.stop = "LF"
    /\ txlog = << <<35, 32, 50, 13, 10>> >>

InitSequence ==
    << <<77, 32, 49, 13, 10>>, <<35, 32, 48, 13, 10>>, <<35, 32, 49, 13, 10>>,
       <<35, 32, 50, 13, 10>>, <<77, 32, 50, 13, 10>> >>

\* C8: luminox_init hands luminox_tx "M 1", "# 0", "# 1", "# 2", "M 2" in
\* this order: while its n-th request runs the frames handed over are the
\* first n of these, and when it has returned they are exactly these five.
C8_InitFrames ==
    op = "luminox_init"
        => /\ txlog = SubSeq(InitSequence, 1, step)
           /\ pc = "idle" => step = 5

C8_Witness ==
    /\ op = "luminox_init"
    /\ pc = "idle"
    /\ txlog = InitSequence
    /\ rx_count > 0
    /\ last_scan.stop = "E"

\* C9: when luminox_init has returned, current_mode is Off, the four
\* measurements are 0 and err_code is Success.
C9_InitEndState ==
    (op = "luminox_init" /\ pc = "idle")
        => /\ current_mode = LUMINOX_MODE_OFF
           /\ Measurements = <<Zero, Zero, Zero, Zero>>
           /\ err_code = LUMINOX_SUCCESS

C9_Witness ==
    /\ op = "luminox_init"
    /\ pc = "idle"
    /\ last_scan.stop = "M"
    /\ last_scan.digit = CH_1
    /\ current_mode = LUMINOX_MODE_OFF
    /\ current_ppO2 = Zero

\* C10: over the README's transport, the decode of a request function reads
\* the response to the command that call transmitted, and a command is
\* transmitted only when the response to the one before has been decoded.
C10_DecodesOwnReply ==
    [][/\ (pc = "decode" /\ pc' # "decode") => buf_tag = cmd_seq
       /\ (pc = "tx_clear" /\ pc' = "tx_wait") => decoded_tag = cmd_seq]_vars

(* ---- claims about the decode on its own, under SpecDecode ---- *)

\* luminox_data begins with a frame "O dddd.d\r\n"
WellFormedPpo2 ==
    /\ luminox_data[1] = 79
    /\ luminox_data[2] = 32
    /\ \A k \in {3, 4, 5, 6, 8} : luminox_data[k] \in 48..57
    /\ luminox_data[7] = 46
    /\ luminox_data[9] = 13
    /\ luminox_data[10] = 10

\* the number the bytes dddd.d at buffer index k (0-based) write
Decimal41(k) ==
    Normalise((luminox_data[k + 1] - 48) * 10000 + (luminox_data[k + 2] - 48) * 1000
              + (luminox_data[k + 3] - 48) * 100 + (luminox_data[k + 4] - 48) * 10
              + (luminox_data[k + 6] - 48), 1)

\* C11: a luminox_process_response call on a buffer that begins with a
\* well-formed ppO2 frame returns with current_ppO2 the value of the six
\* field bytes and err_code Success, and leaves current_O2, current_temp,
\* current_barometric_pressure and current_mode unchanged.
C11_Ppo2Frame ==
    [][(CallOf("luminox_process_response") /\ WellFormedPpo2)
        => /\ pc' = "idle"
           /\ current_ppO2' = Decimal41(2)
           /\ err_code' = LUMINOX_SUCCESS
           /\ UNCHANGED <<current_O2, current_temp, current_barometric_pressure,
                          current_mode>>]_vars

\* C12: a luminox_process_response call on a buffer whose first byte is 'M'
\* and whose byte at index 3 is '0', '1' or '2' returns with current_mode
\* Streaming, Polling or Off respectively, whatever it was before.
C12_ModeEchoSetsMode ==
    [][(CallOf("luminox_process_response") /\ luminox_data[1] = 77
            /\ luminox_data[4] \in {48, 49, 50})
        => /\ pc' = "idle"
           /\ current_mode' = luminox_data[4] - 48]_vars

C12_Witness ==
    /\ op = "luminox_process_response"
    /\ pc = "idle"
    /\ luminox_data[1] = 77
    /\ luminox_data[4] = 48
    /\ last_scan.stop = "M"
    /\ current_mode = LUMINOX_MODE_STREAMING
    /\ err_code = LUMINOX_SUCCESS

\* luminox_data begins with a frame "O dddd.d T sdd.d P dddd % ddd.dd e dddd\r\n"
WellFormedAll ==
    /\ luminox_data[1] = 79 /\ luminox_data[10] = 84 /\ luminox_data[18] = 80
    /\ luminox_data[25] = 37 /\ luminox_data[34] = 101
    /\ \A k \in {2, 9, 11, 17, 19, 24, 26, 33, 35} : luminox_data[k] = 32
    /\ \A k \in {3, 4, 5, 6, 8, 13, 14, 16, 20, 21, 22, 23, 27, 28, 29, 31, 32,
                 36, 37, 38, 39} : luminox_data[k] \in 48..57
    /\ \A k \in {7, 15, 30} : luminox_data[k] = 46
    /\ luminox_data[12] \in {43, 45}
    /\ luminox_data[40] = 13
    /\ luminox_data[41] = 10

\* the numbers the bytes sdd.d, dddd and ddd.dd at buffer index k write
Decimal21Signed(k) ==
    LET m == (luminox_data[k + 2] - 48) * 100 + (luminox_data[k + 3] - 48) * 10
             + (luminox_data[k + 5] - 48)
    IN  Normalise(IF luminox_data[k + 1] = 45 THEN 0 - m ELSE m, 1)

Decimal40(k) ==
    Normalise((luminox_data[k + 1] - 48) * 1000 + (luminox_data[k + 2] - 48) * 100
              + (luminox_data[k + 3] - 48) * 10 + (luminox_data[k + 4] - 48), 0)

Decimal32(k) ==
    Normalise((luminox_data[k + 1] - 48) * 10000 + (luminox_data[k + 2] - 48) * 1000
              + (luminox_data[k + 3] - 48) * 100 + (luminox_data[k + 5] - 48) * 10
              + (luminox_data[k + 6] - 48), 2)

\* C13: a luminox_process_response call on a buffer that begins with one
\* composite frame of the documented shape returns with current_ppO2,
\* current_temp, current_barometric_pressure and current_O2 each the value of
\* its own field and with err_code Success.
C13_CompositeFrame ==
    [][(CallOf("luminox_process_response") /\ WellFormedAll)
        => /\ pc' = "idle"
           /\ current_ppO2' = Decimal41(2)
           /\ current_temp' = Decimal21Signed(11)
           /\ current_barometric_pressure' = Decimal40(19)
           /\ current_O2' = Decimal32(26)
           /\ err_code' = LUMINOX_SUCCESS]_vars

\* C14: every index of luminox_data a luminox_process_response call has read
\* is below 128, and the call has returned.
C14_ReadsInsideBuffer ==
    /\ last_scan.maxi < 128
    /\ pc # "lost"

\* the index (1-based) of the first line feed of b, 0 if it has none
FirstLineFeed(b) ==
    LET S == {k \in 1..Len(b) : b[k] = 10}
    IN  IF S = {} THEN 0 ELSE CHOOSE k \in S : \A j \in S : k <= j

\* b2 has the bytes of b1 up to and including the first line feed of b1
AgreeToFirstLineFeed(b1, b2) ==
    LET n == FirstLineFeed(b1)
    IN  n > 0 /\ SubSeq(b1, 1, n) = SubSeq(b2, 1, n)

Session(h) ==
    <<h.current_mode, h.current_ppO2, h.current_O2, h.current_temp,
      h.current_barometric_pressure, h.err_code>>

\* C15: whatever a luminox_process_response call leaves in the session, the
\* call on any buffer with the same bytes up to and including the first line
\* feed, from the same session, can leave too.
C15_EndsAtFirstLineFeed ==
    [][CallOf("luminox_process_response")
        => \A b2 \in DecodeBuffers :
              AgreeToFirstLineFeed(luminox_data, b2)
                  => \E r \in Decodes([Handler EXCEPT !.luminox_data = b2]) :
                        /\ Session(r.h) = Session(Handler)'
                        /\ (r.stop = "lost") = (pc' = "lost")]_vars

\* C16: a luminox_process_response call that follows a luminox_process_response
\* call on the same buffer leaves the mode, the four measurements and
\* err_code as the first call left them.
C16_DecodeTwice ==
    [][(op = "luminox_process_response" /\ pc = "idle"
            /\ CallOf("luminox_process_response"))
        => /\ pc' = "idle"
           /\ UNCHANGED <<current_mode, Measurements, err_code>>]_vars

\* luminox_data begins with a pressure frame of dashes
DashPressureFrame ==
    /\ luminox_data[1] = 80
    /\ luminox_data[2] = 32
    /\ \A k \in 3..8 : luminox_data[k] = 45
    /\ luminox_data[9] = 13
    /\ luminox_data[10] = 10

\* the values of the pressure fields "0000" .. "9999"
NumericPressures == {<<n, 0>> : n \in 0..9999}

\* C17: a luminox_process_response call on a pressure frame of dashes returns
\* and leaves in current_barometric_pressure a value that no pressure field
\* of four digits gives.
C17_DashPressureSentinel ==
    [][(CallOf("luminox_process_response") /\ DashPressureFrame)
        => /\ pc' = "idle"
           /\ current_barometric_pressure' \notin NumericPressures]_vars

\* the field each getter reads
GetterField(name) ==
    CASE name = "luminox_get_output_mode" -> current_mode
      [] name = "luminox_get_ppO2" -> current_ppO2
      [] name = "luminox_get_O2" -> current_O2
      [] name = "luminox_get_temp" -> current_temp
      [] name = "luminox_get_barometric_pressure" -> current_barometric_pressure

Getters ==
    {"luminox_get_output_mode", "luminox_get_ppO2", "luminox_get_O2",
     "luminox_get_temp", "luminox_get_barometric_pressure"}

\* C18: a call of a getter returns the field of its name, hands nothing to
\* luminox_tx, and leaves every field of the handler, the buffer included,
\* unchanged.
C18_GettersArePureReads ==
    [][\A name \in Getters :
          CallOf(name)
              => /\ ret' = GetterField(name)
                 /\ pc' = "idle"
                 /\ txlog' = <<>>
                 /\ UNCHANGED handler_vars]_vars

C18_Witness ==
    /\ op = "luminox_get_O2"
    /\ pc = "idle"
    /\ ret = current_O2
    /\ current_O2 # Stale
    /\ current_O2 # current_ppO2
    /\ txlog = <<>>

\* C19: luminox_error_handler returns ReceiverOverflow, InvalidCommand,
\* InvalidFrame, InvalidArgument for the byte '0', '1', '2', '3' at index 3 of
\* the buffer and the generic error for every other byte, and changes no
\* field of the handler.
C19_ErrorHandlerMapping ==
    [][CallOf("luminox_error_handler")
        => /\ ret' = (CASE luminox_data[4] = 48 -> 0
                        [] luminox_data[4] = 49 -> 1
                        [] luminox_data[4] = 50 -> 2
                        [] luminox_data[4] = 51 -> 3
                        [] OTHER -> 7)
           /\ pc' = "idle"
           /\ UNCHANGED handler_vars]_vars

C19_Witness ==
    /\ op = "luminox_error_handler"
    /\ pc = "idle"
    /\ luminox_data[1] = 69
    /\ luminox_data[4] = 255
    /\ ret = LUMINOX_ERROR

(* ---- luminox_wait_for_response, under SpecWait ---- *)

InWait == pc \in {"wait_test", "wait_timer", "wait_reset"}

AllReadsFalse(reads) == \A k \in 1..Len(reads) : ~reads[k]

\* C20: luminox_wait_for_response reads the flag at most RESPONSE_TIMEOUT + 1
\* times and returns; it returns Timeout, with Timeout stored in err_code,
\* exactly when every read saw the flag false, and otherwise returns Success
\* with the flag reset to false (and err_code as it was).
C20_BoundedWait ==
    /\ [](Len(flag_reads) <= RESPONSE_TIMEOUT + 1)
    /\ [][(InWait /\ pc' = "idle")
            => /\ (ret' = LUMINOX_ERR_TIMEOUT) = AllReadsFalse(flag_reads')
               /\ AllReadsFalse(flag_reads')
                    => /\ Len(flag_reads') = RESPONSE_TIMEOUT + 1
                       /\ err_code' = LUMINOX_ERR_TIMEOUT
               /\ ~AllReadsFalse(flag_reads')
                    => /\ ret' = LUMINOX_SUCCESS
                       /\ ~luminox_complete_uart_rx'
                       /\ err_code' = err_code]_vars
    /\ (InWait ~> pc = "idle")

C20_Witness ==
    /\ op = "luminox_wait_for_response"
    /\ pc = "idle"
    /\ flag_reads = <<FALSE, FALSE, TRUE>>
    /\ ret = LUMINOX_SUCCESS
    /\ ~luminox_complete_uart_rx
    /\ err_code = LUMINOX_ERR_INVALID_CMD

ArglessOps ==
    {"luminox_request_ppO2", "luminox_request_O2", "luminox_request_temp",
     "luminox_request_barometric_pressure", "luminox_request_sensor_status",
     "luminox_request_all"}

\* the tag the claim gives each of them: 'O', '%', 'T', 'P', 'e', 'A'
TagOf(name) ==
    CASE name = "luminox_request_ppO2" -> 79
      [] name = "luminox_request_O2" -> 37
      [] name = "luminox_request_temp" -> 84
      [] name = "luminox_request_barometric_pressure" -> 80
      [] name = "luminox_request_sensor_status" -> 101
      [] name = "luminox_request_all" -> 65

\* C21: each of the six argument-less request operations hands the transport
\* callback exactly one frame, the 3 bytes tag, CR, LF with its own tag; the
\* decode has not run while the call is in or just behind the callback, and
\* it has run when the call has returned.
C21_RequestFrames ==
    op \in ArglessOps
        => /\ txlog = << <<TagOf(op), 13, 10>> >>
           /\ pc \in {"tx", "decode"} => (last_scan = NoScan /\ ret = NoRet)
           /\ pc = "idle" => (last_scan.stop # "none" /\ ret = err_code)

C21_Witness ==
    /\ op = "luminox_request_all"
    /\ pc = "idle"
    /\ txlog = << <<65, 13, 10>> >>
    /\ rx_count = 1
    /\ last_scan.stop = "LF"
    /\ ret = LUMINOX_SUCCESS

\* tag is the byte at one of the indices 0 .. i - 1 of the buffer
TagBefore(tag, i) == \E k \in 1..i : luminox_data[k] = tag

\* C22: a decode that dispatches on an 'E' or 'M' tag at index i stops
\* there: it reads no byte behind index i + 3, and a measurement field
\* changes only if its tag stands before index i, so that fields standing
\* behind the stop tag in the same buffer are not decoded.
C22_StopTagEndsDecode ==
    [][(CallOf("luminox_process_response") /\ last_scan'.stop \in {"E", "M"})
        => /\ luminox_data[last_scan'.i + 1] \in {69, 77}
           /\ last_scan'.maxi <= last_scan'.i + 3
           /\ current_ppO2' # current_ppO2 => TagBefore(79, last_scan'.i)
           /\ current_O2' # current_O2 => TagBefore(37, last_scan'.i)
           /\ current_temp' # current_temp => TagBefore(84, last_scan'.i)
           /\ current_barometric_pressure' # current_barometric_pressure
                => TagBefore(80, last_scan'.i)]_vars

\* "M 01 O 0021.0\r\n" decoded: the mode is set, the ppO2 field is not read
C22_Witness ==
    /\ op = "luminox_process_response"
    /\ pc = "idle"
    /\ last_scan.stop = "M"
    /\ last_scan.i = 0
    /\ luminox_data[6] = 79
    /\ luminox_data[15] = 10
    /\ current_mode = LUMINOX_MODE_POLLING
    /\ current_ppO2 = Stale

\* luminox_update_data has just stored a response
Stored == rx_count' = rx_count + 1

\* C23: after luminox_update_data has stored a response, no byte of the
\* response stored before it is left in luminox_data: behind the new
\* response no index still holds the non-zero byte it held before.
C23_NothingOfPreviousRemains ==
    [][Stored
        => \A k \in (max_written' + 2)..UART_RX_BUF_SIZE :
              luminox_data[k] # NUL => luminox_data'[k] # luminox_data[k]]_vars

HasLineFeed(b) == \E k \in 1..Len(b) : b[k] = 10

\* C24: on every buffer that holds a line feed, luminox_process_response
\* returns, with its index i on a line feed or on an 'E' or 'M' tag of the
\* buffer.
C24_DecodeTerminates ==
    [][(CallOf("luminox_process_response") /\ HasLineFeed(luminox_data))
        => /\ pc' = "idle"
           /\ last_scan'.stop \in {"LF", "E", "M"}
           /\ last_scan'.i < UART_RX_BUF_SIZE
           /\ luminox_data[last_scan'.i + 1] \in {10, 69, 77}]_vars

\* C25: for every size, luminox_update_data writes no index of luminox_data
\* above 127 and changes no member of the handler but luminox_data.
C25_UpdateStaysInBuffer ==
    [][Stored
        => /\ max_written' <= 127
           /\ UNCHANGED <<current_mode, current_ppO2, current_O2, current_temp,
                          current_barometric_pressure, err_code>>]_vars

\* luminox_process_response reads bytes of the buffer in this step
ScanReads == pc = "scan" /\ (pc' # "scan" \/ scan_i' # scan_i)

\* C26: under the README's super loop in streaming mode, every byte one
\* luminox_process_response call reads is of the frame that was in the
\* buffer when the call began: no luminox_update_data falls between two of
\* its reads.
C26_DecodeReadsOneFrame ==
    [][ScanReads => buf_tag = decoded_tag]_vars

====
